---- MODULE Spec2Model ----
(***************************************************************************)
(* plonesocial.microblog: the StatusContainer storage engine               *)
(* (statuscontainer.py).  A container keeps status updates in a primary    *)
(* BTree keyed by a long id, indexes them by user and by tag, and batches  *)
(* writes through the module-level STATUSQUEUE, flushed by add()'s         *)
(* autoflush() and by a threading.Timer.                                   *)
(*                                                                         *)
(* Request threads and timer threads are processes; every method is cut    *)
(* into steps at its accesses to shared state, and pc[p] is the step the   *)
(* process p executes next.  Spec runs the calls one at a time (the        *)
(* single-writer model); SpecConc interleaves the steps of all processes.  *)
(***************************************************************************)
EXTENDS Integers, Sequences, FiniteSets, TLC

\* ------------------------------------------------------------------ bounds
MaxAdds == 2        \* add() calls of a valid status in one behaviour of Spec
MaxAddsConc == 1    \* the same, in one behaviour of SpecConc
MaxTimers == 2      \* threading.Timer objects created in one behaviour
MaxTicks == 3       \* clock steps in one behaviour of Spec
MaxTicksConc == 2   \* the same, in one behaviour of SpecConc
MaxAddsIso == 2     \* the same, in one behaviour of SpecIso
MaxTicksIso == 3    \* clock steps in one behaviour of SpecIso
MaxAddsRace == 2    \* add() calls in one behaviour of SpecRace
MaxKey == 1         \* key arguments of the blocked methods: 0..MaxKey
MaxBound == 2       \* min and max arguments of user_keys: None or 0..MaxBound

TickMs == 500       \* milliseconds of one clock step
Now0 == 5000        \* int(time.time() * 1000) when the behaviour starts

\* MAX_QUEUE_AGE values the module is run with (statuscontainer.py:32 sets
\* 1000; "To disable batch queuing, set MAX_QUEUE_AGE = 0").
Windows == {0, 1000}

Containers == {"A", "B"}
NoContainer == "-"
Requests == {<<"req", 1>>, <<"req", 2>>}
Timers == {<<"timer", i>> : i \in 1..MaxTimers}
Procs == Requests \cup Timers

\* Objects handed to add(): 1..3 provide IStatusUpdate, 0 does not.
Statuses == {1, 2, 3}
NotAStatus == 0
Objects == Statuses \cup {NotAStatus}

\* status.userid and status.tags of the three status objects.  A value is
\* <<type, text>>: Python 2 has byte strings and unicode strings.
status_userid(s) ==
  IF s = 1 THEN <<"unicode", "a">> ELSE IF s = 2 THEN <<"str", "a">>
  ELSE <<"str", "b">>
status_tags(s) ==
  IF s = 1 THEN {<<"str", "x">>}
  ELSE IF s = 2 THEN {<<"unicode", "x">>, <<"str", "y">>}
  ELSE {<<"str", "y">>}

\* status.id when the object is created: 1 and 2 are created in the same
\* microsecond, 3 in the next one.
status_created_id(s) == IF s = 3 THEN 2 ELSE 1

\* unicode(v): the unicode string with v's text.
unicode(v) == <<"unicode", v[2]>>

UserKeys == {unicode(status_userid(s)) : s \in Statuses}
TagKeys == UNION {{unicode(t) : t \in status_tags(s)} : s \in Statuses}

VARIABLES
  MAX_QUEUE_AGE,   \* the module global (ms)
  containers,      \* the StatusContainer instances that exist
  serial,          \* whether the calls run one at a time
  budget,          \* the add() calls and clock steps of one behaviour
  now,             \* int(time.time() * 1000)
  STATUSQUEUE,     \* the module's PriorityQueue: a set of entries
  LOCK,            \* the module's RLock: <<>> or <<owner>>
  _mtime,          \* per container
  _v_timer,        \* per container: <<"unset">>, <<"None">> or <<"timer", i>>
  _status_mapping, \* per container: key -> status object
  _user_mapping,   \* per container: unicode userid -> set of keys
  _tag_mapping,    \* per container: unicode tag -> set of keys
  status_id,       \* status.id of each status object
  deadline,        \* per timer: the time its interval ends
  pc,              \* per process: the step it is at
  self,            \* per process: the container of the running call
  op,              \* per process: the method called on it
  frame,           \* per process: the caller of the running store()
  status,          \* per process: the local variable status
  ret,             \* per process: how its last call ended
  ev,              \* per process: the event of the status in hand
  fno,             \* per process: the flush_queue() call autoflush() made
  \* history
  events,          \* one record per accepted add(): its commit and notification
  storeCount       \* per container: store() inserts since the last clear()

shared == <<STATUSQUEUE, LOCK, _mtime, _v_timer, deadline>>
stores == <<_status_mapping, _user_mapping, _tag_mapping, status_id>>
locals == <<pc, self, op, frame, status, ret, ev, fno>>
history == <<events, storeCount>>
config == <<MAX_QUEUE_AGE, containers, serial, budget>>
vars == <<config, now, shared, stores, locals, history>>

\* ----------------------------------------------------------------- values
None == <<"None">>
Unset == <<"unset">>
Returned(v) == [exc |-> "", val |-> v]
Raised(e) == [exc |-> e, val |-> ""]
NoCall == [exc |-> "", val |-> "-"]

\* IStatusUpdate.providedBy(o)
IStatusUpdate_providedBy(o) == o \in Statuses

\* int(math.ceil(float(MAX_QUEUE_AGE) / 1000)) seconds, in ms
timeout == ((MAX_QUEUE_AGE + 999) \div 1000) * 1000

EmptyTree == [k \in {} |-> 0]

\* OOBTree / LOBTree primitives
BTree_insert(tree, k, v) ==
  IF k \in DOMAIN tree THEN tree
  ELSE [x \in DOMAIN tree \cup {k} |-> IF x = k THEN v ELSE tree[x]]
TreeSet_insert(tree, k, i) ==
  [tree EXCEPT ![k] = tree[k] \cup {i}]

\* A process that is between calls / not running a timer callback.
AtRest(p) == pc[p] \in {"idle", "unborn", "waiting", "finished"}
Resting == \A p \in Procs : AtRest(p)

\* Whether p may take a step.  With serial calls (the single-writer model) a
\* process steps only while every other one is between calls, and one request
\* thread makes all the calls; otherwise the steps of all processes interleave.
Turn(p) ==
  serial => /\ p \in Requests => p = <<"req", 1>>
            /\ \A q \in Procs \ {p} : AtRest(q)

\* ------------------------------------------------------------------- Init
InitShared ==
  /\ MAX_QUEUE_AGE \in Windows
  /\ now = Now0
  /\ STATUSQUEUE = {}
  /\ LOCK = <<>>
  /\ _mtime = [c \in Containers |-> 0]
  /\ _v_timer = [c \in Containers |-> Unset]
  /\ _status_mapping = [c \in Containers |-> EmptyTree]
  /\ _user_mapping = [c \in Containers |-> EmptyTree]
  /\ _tag_mapping = [c \in Containers |-> EmptyTree]
  /\ status_id = [s \in Statuses |-> status_created_id(s)]
  /\ deadline = [t \in Timers |-> 0]
  /\ pc = [p \in Procs |-> IF p \in Requests THEN "idle" ELSE "unborn"]
  /\ self = [p \in Procs |-> NoContainer]
  /\ op = [p \in Procs |-> "-"]
  /\ frame = [p \in Procs |-> "-"]
  /\ status = [p \in Procs |-> NotAStatus]
  /\ ret = [p \in Procs |-> NoCall]
  /\ events = <<>>
  /\ ev = [p \in Procs |-> 0]
  /\ fno = [p \in Procs |-> <<>>]
  /\ storeCount = [c \in Containers |-> 0]

Init ==
  /\ InitShared /\ containers = {"A"} /\ serial = TRUE
  /\ budget = [adds |-> MaxAdds, ticks |-> MaxTicks]
InitConc ==
  /\ InitShared /\ containers = {"A"} /\ serial = FALSE
  /\ budget = [adds |-> MaxAddsConc, ticks |-> MaxTicksConc]

\* ---------------------------------------------------------------- control
Goto(p, label) ==
  /\ pc' = [pc EXCEPT ![p] = label]
  /\ UNCHANGED <<self, op, ret>>

\* Process p is at the entry of method m of container c: a request thread
\* that is between calls and calls it now, or a process whose running call
\* has reached its call of self.m().
Enters(p, m, c) ==
  /\ Turn(p)
  /\ \/ p \in Requests /\ pc[p] = "idle" /\ c \in containers
     \/ pc[p] = m /\ self[p] = c

\* The same, for the methods only a caller from outside enters.
Called(p, c) ==
  /\ Turn(p)
  /\ p \in Requests
  /\ pc[p] = "idle"
  /\ c \in containers

\* p goes on at label; if this step was the call, the call is recorded.
Enter(p, m, c, label) ==
  /\ pc' = [pc EXCEPT ![p] = label]
  /\ self' = [self EXCEPT ![p] = c]
  /\ op' = [op EXCEPT ![p] = IF pc[p] = "idle" THEN m ELSE @]
  /\ UNCHANGED ret

\* A timer thread that ended stays visible while _v_timer refers to it; an
\* unreferenced one is garbage and its slot is free again.
TimerEnd(t, c) == IF _v_timer[c] = t THEN "finished" ELSE "unborn"

\* The running call of p on container c ends with r (a return value or an
\* exception).  In a timer thread the call is _scheduled_autoflush's
\* "if self.autoflush():".
Return(p, m, c, r) ==
  /\ pc' = [pc EXCEPT ![p] =
       IF p \in Requests THEN "return"
       ELSE IF r = Returned("1") THEN "_scheduled_autoflush"
       ELSE TimerEnd(p, c)]
  /\ ret' = [ret EXCEPT ![p] = IF p \in Requests THEN r ELSE NoCall]
  /\ self' = [self EXCEPT ![p] = c]
  /\ op' = [op EXCEPT ![p] = IF pc[p] = "idle" THEN m ELSE @]
  /\ status' = [status EXCEPT ![p] = NotAStatus]
  /\ frame' = [frame EXCEPT ![p] = "-"]
  /\ ev' = [ev EXCEPT ![p] = 0]
  /\ fno' = [fno EXCEPT ![p] =
       IF p \in Requests \/ r = Returned("1") THEN @ ELSE <<>>]

\* The caller of the request thread's method has its result; the thread is
\* free for the next call.
Returns(p) ==
  /\ pc[p] = "return"
  /\ Turn(p)
  /\ pc' = [pc EXCEPT ![p] = "idle"]
  /\ op' = [op EXCEPT ![p] = "-"]
  /\ ret' = [ret EXCEPT ![p] = NoCall]
  /\ self' = [self EXCEPT ![p] = NoContainer]
  /\ fno' = [fno EXCEPT ![p] = <<>>]
  /\ UNCHANGED <<frame, status, ev>>
  /\ UNCHANGED <<config, now, shared, stores, history>>

FreeTimers == {t \in Timers : pc[t] = "unborn"}
Arming == {q \in Procs : pc[q] \in {"_schedule_flush", "_schedule_flush_start"}}

\* ------------------------------------------------------------------ add()
\* The threads inside a flush_queue() call.
InFlush(p) ==
  \/ pc[p] \in {"flush_queue_cancel", "flush_queue_empty", "flush_queue_get"}
  \/ pc[p] \in {"store", "_idx_user", "_idx_tag", "_notify"}
       /\ frame[p] = "flush_queue"

\* What is recorded of an accepted add(): the status, the container, the
\* time, the calling thread, status.id as it was queued (qid) and the threads
\* whose flush_queue() call overlaps the add() call (during); later status.id at the entry of store() (req), the key it
\* was inserted under, its place in the order of the inserts (seq), the flush
\* and the caller that stored it, and the ObjectAddedEvent notified.
NewEvent(p, c, o) ==
  [status |-> o, self |-> c, at |-> now, adder |-> p,
   qid |-> IF MAX_QUEUE_AGE > 0 THEN status_id[o] ELSE 0,
   during |-> {q \in Procs : InFlush(q)},
   req |-> IF MAX_QUEUE_AGE > 0 THEN 0 ELSE status_id[o],
   key |-> 0, seq |-> 0, into |-> "-", fl |-> <<>>, by |-> "-",
   notified |-> 0, newName |-> 0, newParent |-> "-"]

\* Whether the add() call of the i-th accepted status is still running.
AddRunning(i) ==
  LET q == events[i].adder
  IN /\ op[q] = "add"
     /\ pc[q] \notin {"idle", "return"}
     /\ \A j \in (i + 1)..Len(events) : events[j].adder # q

\* queue(): STATUSQUEUE.put((status.id, status))
queue(o) ==
  STATUSQUEUE' = STATUSQUEUE \cup
    {[id |-> status_id[o], status |-> o, ev |-> Len(events) + 1]}

\* _check_status(): whether it returns (TRUE) or raises ValueError
_check_status(o) == IStatusUpdate_providedBy(o)

\* add() that queues whatever MAX_QUEUE_AGE is (">= 0" for "> 0").
add_always_queues(p, c, o) ==
  /\ Called(p, c)
  /\ IF ~_check_status(o)
     THEN /\ Return(p, "add", c, Raised("ValueError"))
          /\ UNCHANGED <<config, now, shared, stores, history>>
     ELSE /\ Len(events) < budget.adds
          /\ (MAX_QUEUE_AGE > 0 /\ _v_timer[c] \notin Timers) =>
               Cardinality(FreeTimers) > Cardinality(Arming)
          /\ events' = Append(events, NewEvent(p, c, o))
          /\ queue(o)
          /\ Enter(p, "add", c, "_schedule_flush")
          /\ UNCHANGED <<frame, status, ev, fno>>
          /\ UNCHANGED <<config, now, LOCK, _mtime, _v_timer, deadline, stores>>
          /\ UNCHANGED storeCount

\* add() that checks the status after it has queued it.
add_checks_late(p, c, o) ==
  /\ Called(p, c)
  /\ IF ~_check_status(o)
     THEN /\ STATUSQUEUE' = STATUSQUEUE \cup
               {[id |-> 0, status |-> o, ev |-> Len(events) + 1]}
          /\ Return(p, "add", c, Raised("ValueError"))
          /\ UNCHANGED <<config, now, LOCK, _mtime, _v_timer, deadline>>
          /\ UNCHANGED <<stores, history>>
     ELSE /\ Len(events) < budget.adds
          /\ (MAX_QUEUE_AGE > 0 /\ _v_timer[c] \notin Timers) =>
               Cardinality(FreeTimers) > Cardinality(Arming)
          /\ events' = Append(events, NewEvent(p, c, o))
          /\ IF MAX_QUEUE_AGE > 0
             THEN /\ queue(o)
                  /\ Enter(p, "add", c, "_schedule_flush")
                  /\ UNCHANGED <<frame, status, ev, fno>>
             ELSE /\ Enter(p, "add", c, "store")
                  /\ status' = [status EXCEPT ![p] = o]
                  /\ frame' = [frame EXCEPT ![p] = "add"]
                  /\ ev' = [ev EXCEPT ![p] = Len(events) + 1]
                  /\ UNCHANGED <<STATUSQUEUE, fno>>
          /\ UNCHANGED <<config, now, LOCK, _mtime, _v_timer, deadline, stores>>
          /\ UNCHANGED storeCount

\* add(status), up to its call of _schedule_flush() or of store()
add(p, c, o) ==
  /\ Called(p, c)
  /\ IF ~_check_status(o)
     THEN /\ Return(p, "add", c, Raised("ValueError"))
          /\ UNCHANGED <<config, now, shared, stores, history>>
     ELSE /\ Len(events) < budget.adds
          /\ (MAX_QUEUE_AGE > 0 /\ _v_timer[c] \notin Timers) =>
               Cardinality(FreeTimers) > Cardinality(Arming)
          /\ events' = Append(events, NewEvent(p, c, o))
          /\ IF MAX_QUEUE_AGE > 0
             THEN /\ queue(o)
                  /\ Enter(p, "add", c, "_schedule_flush")
                  /\ UNCHANGED <<frame, status, ev, fno>>
             ELSE /\ Enter(p, "add", c, "store")
                  /\ status' = [status EXCEPT ![p] = o]
                  /\ frame' = [frame EXCEPT ![p] = "add"]
                  /\ ev' = [ev EXCEPT ![p] = Len(events) + 1]
                  /\ UNCHANGED <<STATUSQUEUE, fno>>
          /\ UNCHANGED <<config, now, LOCK, _mtime, _v_timer, deadline, stores>>
          /\ UNCHANGED storeCount

\* _schedule_flush(), up to the test of _v_timer
_schedule_flush(p) ==
  /\ pc[p] = "_schedule_flush"
  /\ Turn(p)
  /\ LET c == self[p]
         seen == IF _v_timer[c] = Unset THEN None ELSE _v_timer[c]
     IN IF ~(MAX_QUEUE_AGE > 0)
        THEN /\ Goto(p, "autoflush")
             /\ UNCHANGED _v_timer
        ELSE /\ _v_timer' = [_v_timer EXCEPT ![c] = seen]
             /\ IF seen # None
                THEN Goto(p, "autoflush")
                ELSE Goto(p, "_schedule_flush_start")
  /\ UNCHANGED <<frame, status, ev, fno>>
  /\ UNCHANGED <<config, now, STATUSQUEUE, LOCK, _mtime, deadline, stores, history>>

\* _schedule_flush(): with LOCK, create and start the Timer
_schedule_flush_start(p) ==
  /\ pc[p] = "_schedule_flush_start"
  /\ Turn(p)
  /\ LOCK = <<>>
  /\ FreeTimers # {}
  /\ LET c == self[p]
         t == CHOOSE x \in FreeTimers : \A y \in FreeTimers : x[2] <= y[2]
     IN /\ _v_timer' = [_v_timer EXCEPT ![c] = t]
        /\ deadline' = [deadline EXCEPT ![t] = now + timeout]
        /\ pc' = [pc EXCEPT ![p] = "autoflush", ![t] = "waiting"]
        /\ self' = [self EXCEPT ![t] = c]
        /\ op' = [op EXCEPT ![t] = "_scheduled_autoflush"]
        /\ UNCHANGED ret
  /\ UNCHANGED <<frame, status, ev, fno>>
  /\ UNCHANGED <<config, now, STATUSQUEUE, LOCK, _mtime, stores, history>>

\* threading.Timer.run(): the interval is over and the timer was not
\* cancelled; it calls _scheduled_autoflush, which calls autoflush().
Timer_run(t) ==
  /\ pc[t] = "waiting"
  /\ Turn(t)
  /\ now >= deadline[t]
  /\ deadline' = [deadline EXCEPT ![t] = 0]
  /\ Goto(t, "autoflush")
  /\ UNCHANGED <<frame, status, ev, fno>>
  /\ UNCHANGED <<config, now, STATUSQUEUE, LOCK, _mtime, _v_timer, stores, history>>

\* _scheduled_autoflush(): autoflush() returned 1, so transaction.commit()
_scheduled_autoflush(t) ==
  /\ pc[t] = "_scheduled_autoflush"
  /\ Turn(t)
  /\ pc' = [pc EXCEPT ![t] = TimerEnd(t, self[t])]
  /\ self' = [self EXCEPT ![t] = IF TimerEnd(t, self[t]) = "unborn" THEN NoContainer ELSE @]
  /\ op' = [op EXCEPT ![t] = IF TimerEnd(t, self[t]) = "unborn" THEN "-" ELSE @]
  /\ fno' = [fno EXCEPT ![t] = <<>>]
  /\ UNCHANGED <<ret, frame, status, ev>>
  /\ UNCHANGED <<config, now, shared, stores, history>>

\* ------------------------------------------------------------- autoflush()
\* What tells one flush_queue() call from the others: its time, its thread,
\* the number of statuses stored before it and the statuses queued then.
FlushNo(p) ==
  <<now, p, Cardinality({i \in 1..Len(events) : events[i].seq # 0}),
    {e.ev : e \in STATUSQUEUE}>>

\* autoflush() without the test of _mtime.
autoflush_ungated(p, c) ==
  /\ Enters(p, "autoflush", c)
  /\ Enter(p, "autoflush", c, "flush_queue")
  /\ fno' = [fno EXCEPT ![p] = FlushNo(p)]
  /\ UNCHANGED <<frame, status, ev>>
  /\ UNCHANGED <<config, now, shared, stores, history>>

\* autoflush() with ">=" for ">" in the test of _mtime.
autoflush_at_age(p, c) ==
  /\ Enters(p, "autoflush", c)
  /\ IF now - _mtime[c] >= MAX_QUEUE_AGE
     THEN /\ Enter(p, "autoflush", c, "flush_queue")
          /\ fno' = [fno EXCEPT ![p] = FlushNo(p)]
          /\ UNCHANGED <<frame, status, ev>>
     ELSE Return(p, "autoflush", c, Returned("0"))
  /\ UNCHANGED <<config, now, shared, stores, history>>

autoflush(p, c) ==
  /\ Enters(p, "autoflush", c)
  /\ IF now - _mtime[c] > MAX_QUEUE_AGE
     THEN /\ Enter(p, "autoflush", c, "flush_queue")
          /\ fno' = [fno EXCEPT ![p] = FlushNo(p)]
          /\ UNCHANGED <<frame, status, ev>>
     ELSE Return(p, "autoflush", c, Returned("0"))
  /\ UNCHANGED <<config, now, shared, stores, history>>

\* ----------------------------------------------------------- flush_queue()
\* with LOCK: self._mtime = int(time.time() * 1000)
flush_queue(p, c) ==
  /\ Enters(p, "flush_queue", c)
  /\ LOCK = <<>>
  /\ LOCK' = <<p>>
  /\ _mtime' = [_mtime EXCEPT ![c] = now]
  /\ Enter(p, "flush_queue", c, "flush_queue_cancel")
  /\ fno' = [fno EXCEPT ![p] = FlushNo(p)]
  /\ events' = [i \in 1..Len(events) |->
       IF AddRunning(i) /\ events[i].adder # p
       THEN [events[i] EXCEPT !.during = @ \cup {p}]
       ELSE events[i]]
  /\ UNCHANGED <<frame, status, ev>>
  /\ UNCHANGED <<config, now, STATUSQUEUE, _v_timer, deadline, stores, storeCount>>

\* still with LOCK: cancel the scheduled flush, then release LOCK.  Reading
\* an unset _v_timer raises AttributeError out of flush_queue().
flush_queue_cancel(p) ==
  /\ pc[p] = "flush_queue_cancel"
  /\ Turn(p)
  /\ LOCK = <<p>>
  /\ LOCK' = <<>>
  /\ LET c == self[p]
         t == _v_timer[c]
     IN IF t = Unset
        THEN /\ Return(p, "flush_queue", c, Raised("AttributeError"))
             /\ UNCHANGED <<_v_timer, deadline>>
        ELSE /\ _v_timer' = [_v_timer EXCEPT ![c] = None]
             /\ IF t \in Timers /\ t # p /\ pc[t] \in {"waiting", "finished"}
                THEN /\ pc' = [pc EXCEPT ![p] = "flush_queue_empty", ![t] = "unborn"]
                     /\ self' = [self EXCEPT ![t] = NoContainer]
                     /\ op' = [op EXCEPT ![t] = "-"]
                     /\ deadline' = [deadline EXCEPT ![t] = 0]
                     /\ UNCHANGED ret
                ELSE /\ Goto(p, "flush_queue_empty")
                     /\ UNCHANGED deadline
             /\ UNCHANGED <<frame, status, ev, fno>>
  /\ UNCHANGED <<config, now, STATUSQUEUE, _mtime, stores, history>>

\* if STATUSQUEUE.empty(): return 0
flush_queue_empty(p) ==
  /\ pc[p] = "flush_queue_empty"
  /\ Turn(p)
  /\ IF STATUSQUEUE = {}
     THEN Return(p, "flush_queue", self[p], Returned("0"))
     ELSE /\ Goto(p, "flush_queue_get")
          /\ UNCHANGED <<frame, status, ev, fno>>
  /\ UNCHANGED <<config, now, shared, stores, history>>

\* Queue.get() of a FIFO queue: the entry put first
Oldest(q) == {e \in q : \A f \in q : e.ev <= f.ev}

\* PriorityQueue.get(): an entry with the least id
Least(q) == {e \in q : \A f \in q : e.id <= f.id}

\* (id, status) = STATUSQUEUE.get(block=False), or Queue.Empty: return 1
flush_queue_get(p) ==
  /\ pc[p] = "flush_queue_get"
  /\ Turn(p)
  /\ IF STATUSQUEUE = {}
     THEN /\ Return(p, "flush_queue", self[p], Returned("1"))
          /\ UNCHANGED <<STATUSQUEUE, events>>
     ELSE \E e \in Least(STATUSQUEUE) :
          /\ STATUSQUEUE' = STATUSQUEUE \ {e}
          /\ status' = [status EXCEPT ![p] = e.status]
          /\ ev' = [ev EXCEPT ![p] = e.ev]
          /\ frame' = [frame EXCEPT ![p] = "flush_queue"]
          /\ events' = [events EXCEPT ![e.ev].req = status_id[e.status]]
          /\ Goto(p, "store")
          /\ UNCHANGED fno
  /\ UNCHANGED <<config, now, LOCK, _mtime, _v_timer, deadline, stores, storeCount>>

\* ----------------------------------------------------------------- store()
\* store() with self._status_mapping[status.id] = status in place of the
\* insert loop: an existing key is overwritten.
store_overwrite(p) ==
  /\ pc[p] = "store"
  /\ Turn(p)
  /\ LET c == self[p]
         s == status[p]
         k == status_id[s]
     IN /\ _status_mapping' = [_status_mapping EXCEPT ![c] =
             [x \in DOMAIN @ \cup {k} |-> IF x = k THEN s ELSE @[x]]]
        /\ storeCount' = [storeCount EXCEPT ![c] = @ + 1]
        /\ events' = [events EXCEPT ![ev[p]] =
             [@ EXCEPT !.key = k, !.fl = fno[p], !.by = op[p]]]
        /\ Goto(p, "_idx_user")
  /\ UNCHANGED <<frame, status, ev, fno>>
  /\ UNCHANGED <<config, now, shared, _user_mapping, _tag_mapping, status_id>>

\* store() with "status.id -= 1" in the loop.
store_steps_down(p) ==
  /\ pc[p] = "store"
  /\ Turn(p)
  /\ LET c == self[p]
         s == status[p]
         k == status_id[s]
     IN IF k \notin DOMAIN _status_mapping[c]
        THEN /\ _status_mapping' =
                  [_status_mapping EXCEPT ![c] = BTree_insert(@, k, s)]
             /\ storeCount' = [storeCount EXCEPT ![c] = @ + 1]
             /\ events' = [events EXCEPT ![ev[p]] =
                  [@ EXCEPT !.key = k, !.into = c, !.fl = fno[p], !.by = op[p],
                            !.seq = Cardinality({i \in 1..Len(events) :
                                                   events[i].seq # 0}) + 1]]
             /\ Goto(p, "_idx_user")
             /\ UNCHANGED status_id
        ELSE /\ status_id' = [status_id EXCEPT ![s] = k - 1]
             /\ UNCHANGED <<_status_mapping, storeCount, events, pc, self, op, ret>>
  /\ UNCHANGED <<frame, status, ev, fno>>
  /\ UNCHANGED <<config, now, shared, _user_mapping, _tag_mapping>>

\* store() with "status.id += 2" in the loop.
store_skips(p) ==
  /\ pc[p] = "store"
  /\ Turn(p)
  /\ LET c == self[p]
         s == status[p]
         k == status_id[s]
     IN IF k \notin DOMAIN _status_mapping[c]
        THEN /\ _status_mapping' =
                  [_status_mapping EXCEPT ![c] = BTree_insert(@, k, s)]
             /\ storeCount' = [storeCount EXCEPT ![c] = @ + 1]
             /\ events' = [events EXCEPT ![ev[p]] =
                  [@ EXCEPT !.key = k, !.into = c, !.fl = fno[p], !.by = op[p],
                            !.seq = Cardinality({i \in 1..Len(events) :
                                                   events[i].seq # 0}) + 1]]
             /\ Goto(p, "_idx_user")
             /\ UNCHANGED status_id
        ELSE /\ status_id' = [status_id EXCEPT ![s] = k + 2]
             /\ UNCHANGED <<_status_mapping, storeCount, events, pc, self, op, ret>>
  /\ UNCHANGED <<frame, status, ev, fno>>
  /\ UNCHANGED <<config, now, shared, _user_mapping, _tag_mapping>>

\* one turn of "while not self._status_mapping.insert(status.id, status)"
store(p) ==
  /\ pc[p] = "store"
  /\ Turn(p)
  /\ LET c == self[p]
         s == status[p]
         k == status_id[s]
     IN IF k \notin DOMAIN _status_mapping[c]
        THEN /\ _status_mapping' =
                  [_status_mapping EXCEPT ![c] = BTree_insert(@, k, s)]
             /\ storeCount' = [storeCount EXCEPT ![c] = @ + 1]
             /\ events' = [events EXCEPT ![ev[p]] =
                  [@ EXCEPT !.key = k, !.into = c, !.fl = fno[p], !.by = op[p],
                            !.seq = Cardinality({i \in 1..Len(events) :
                                                   events[i].seq # 0}) + 1]]
             /\ Goto(p, "_idx_user")
             /\ UNCHANGED status_id
        ELSE /\ status_id' = [status_id EXCEPT ![s] = k + 1]
             /\ UNCHANGED <<_status_mapping, storeCount, events, pc, self, op, ret>>
  /\ UNCHANGED <<frame, status, ev, fno>>
  /\ UNCHANGED <<config, now, shared, _user_mapping, _tag_mapping>>

\* _idx_user() that files the status under the id it was created with.
_idx_user_created_id(p) ==
  /\ pc[p] = "_idx_user"
  /\ Turn(p)
  /\ LET c == self[p]
         userid == unicode(status_userid(status[p]))
     IN _user_mapping' = [_user_mapping EXCEPT ![c] =
          TreeSet_insert(BTree_insert(@, userid, {}), userid,
                         status_created_id(status[p]))]
  /\ Goto(p, "_idx_tag")
  /\ UNCHANGED <<frame, status, ev, fno>>
  /\ UNCHANGED <<config, now, shared, _status_mapping, _tag_mapping, status_id, history>>

\* _idx_user()
_idx_user(p) ==
  /\ pc[p] = "_idx_user"
  /\ Turn(p)
  /\ LET c == self[p]
         userid == unicode(status_userid(status[p]))
     IN _user_mapping' = [_user_mapping EXCEPT ![c] =
          TreeSet_insert(BTree_insert(@, userid, {}), userid, status_id[status[p]])]
  /\ Goto(p, "_idx_tag")
  /\ UNCHANGED <<frame, status, ev, fno>>
  /\ UNCHANGED <<config, now, shared, _status_mapping, _tag_mapping, status_id, history>>

\* _idx_tag(): the loop over status.tags
RECURSIVE IndexTags(_, _, _)
IndexTags(tree, tags, i) ==
  IF tags = {} THEN tree
  ELSE LET tag == CHOOSE x \in tags : TRUE
       IN IndexTags(TreeSet_insert(BTree_insert(tree, tag, {}), tag, i),
                    tags \ {tag}, i)

_idx_tag(p) ==
  /\ pc[p] = "_idx_tag"
  /\ Turn(p)
  /\ LET c == self[p]
         tags == {unicode(tag) : tag \in status_tags(status[p])}
     IN _tag_mapping' = [_tag_mapping EXCEPT ![c] =
          IndexTags(@, tags, status_id[status[p]])]
  /\ Goto(p, "_notify")
  /\ UNCHANGED <<frame, status, ev, fno>>
  /\ UNCHANGED <<config, now, shared, _status_mapping, _user_mapping, status_id, history>>

\* _notify(), and store() returns to add() or to flush_queue()'s loop
_notify(p) ==
  /\ pc[p] = "_notify"
  /\ Turn(p)
  /\ events' = [events EXCEPT ![ev[p]] =
       [@ EXCEPT !.notified = @ + 1, !.newParent = self[p],
                 !.newName = status_id[status[p]]]]
  /\ IF frame[p] = "add"
     THEN Return(p, "add", self[p], Returned("1"))
     ELSE /\ Goto(p, "flush_queue_get")
          /\ status' = [status EXCEPT ![p] = NotAStatus]
          /\ ev' = [ev EXCEPT ![p] = 0]
          /\ UNCHANGED <<frame, fno>>
  /\ UNCHANGED <<config, now, shared, stores, storeCount>>

\* ----------------------------------------------------------------- clear()
\* self._user_mapping.clear()
clear(p, c) ==
  /\ Called(p, c)
  /\ _user_mapping' = [_user_mapping EXCEPT ![c] = EmptyTree]
  /\ Enter(p, "clear", c, "clear_tag_mapping")
  /\ UNCHANGED <<frame, status, ev, fno>>
  /\ UNCHANGED <<config, now, shared, _status_mapping, _tag_mapping, status_id, history>>

\* self._tag_mapping.clear()
clear_tag_mapping(p) ==
  /\ pc[p] = "clear_tag_mapping"
  /\ Turn(p)
  /\ _tag_mapping' = [_tag_mapping EXCEPT ![self[p]] = EmptyTree]
  /\ Goto(p, "clear_status_mapping")
  /\ UNCHANGED <<frame, status, ev, fno>>
  /\ UNCHANGED <<config, now, shared, _status_mapping, _user_mapping, status_id, history>>

\* return self._status_mapping.clear()
clear_status_mapping(p) ==
  /\ pc[p] = "clear_status_mapping"
  /\ Turn(p)
  /\ _status_mapping' = [_status_mapping EXCEPT ![self[p]] = EmptyTree]
  /\ storeCount' = [storeCount EXCEPT ![self[p]] = 0]
  /\ Return(p, "clear", self[p], Returned("None"))
  /\ UNCHANGED <<config, now, shared, _user_mapping, _tag_mapping, status_id, events>>

\* ------------------------------------------------- blocked IBTree methods
insert(p, c, key, value) ==
  /\ Called(p, c)
  /\ Return(p, "insert", c, Raised("NotImplementedError"))
  /\ UNCHANGED <<config, now, shared, stores, history>>

\* pop() as OOBTree.pop() does it: the key is removed and its value returned.
pop_inherited(p, c, k, d) ==
  /\ Called(p, c)
  /\ _status_mapping' = [_status_mapping EXCEPT ![c] =
       [x \in DOMAIN @ \ {k} |-> @[x]]]
  /\ Return(p, "pop", c, Returned("None"))
  /\ UNCHANGED <<config, now, shared, history>>
  /\ UNCHANGED <<_user_mapping, _tag_mapping, status_id>>

pop(p, c, k, d) ==
  /\ Called(p, c)
  /\ Return(p, "pop", c, Raised("NotImplementedError"))
  /\ UNCHANGED <<config, now, shared, stores, history>>

setdefault(p, c, k, d) ==
  /\ Called(p, c)
  /\ Return(p, "setdefault", c, Raised("NotImplementedError"))
  /\ UNCHANGED <<config, now, shared, stores, history>>

update(p, c, collection) ==
  /\ Called(p, c)
  /\ Return(p, "update", c, Raised("NotImplementedError"))
  /\ UNCHANGED <<config, now, shared, stores, history>>

\* ---------------------------------------------------------- user accessors
\* Arguments of the accessors: None, an int, a string, or a list of strings.
Integer(n) == <<"int", n>>
List(seq) == <<"list", seq>>

\* Python's truth value of such an argument ("not x" is its negation).
truth(x) ==
  IF x = None THEN FALSE
  ELSE IF x[1] = "int" THEN x[2] # 0
  ELSE IF x[1] = "list" THEN x[2] # <<>>
  ELSE x[2] # ""

\* keys.sort(): the list of the elements in ascending order
RECURSIVE sort(_)
sort(keys) ==
  IF keys = {} THEN <<>>
  ELSE LET least == CHOOSE x \in keys : \A y \in keys : x <= y
       IN <<least>> \o sort(keys \ {least})

\* user_keys(users, min, max).  A str is made a list of one; a unicode
\* string is iterated as it is, which for a string of one character gives
\* that string.  A str and a unicode string with the same text are one key.
user_keys(c, users, min, max) ==
  IF ~truth(users) THEN <<>>
  ELSE
    LET list == IF users[1] = "list" THEN users[2] ELSE <<users>>
        found == {k \in DOMAIN _user_mapping[c] :
                    \E n \in 1..Len(list) : list[n][2] = k[2]}
        merged == UNION {_user_mapping[c][k] : k \in found}
        keys == {x \in merged :
                   /\ (~truth(min) \/ min[2] <= x)
                   /\ (~truth(max) \/ max[2] >= x)}
    IN sort(keys)

\* ------------------------------------------------------------------ clock
Tick ==
  /\ serial => Resting
  /\ now < Now0 + budget.ticks * TickMs
  /\ now' = now + TickMs
  /\ UNCHANGED <<config, shared, stores, locals, history>>

\* ------------------------------------------------------------------- Next
\* Arguments of the blocked methods.
Keys == 0..MaxKey
Values == {NotAStatus, 1}

Next ==
  \/ Tick
  \/ \E p \in Requests : Returns(p)
  \/ \E t \in Timers : Timer_run(t)
  \/ \E t \in Timers : _scheduled_autoflush(t)
  \/ \E p \in Requests, c \in Containers, o \in Objects : add(p, c, o)
  \/ \E p \in Requests : _schedule_flush(p)
  \/ \E p \in Requests : _schedule_flush_start(p)
  \/ \E p \in Procs, c \in Containers : autoflush(p, c)
  \/ \E p \in Procs, c \in Containers : flush_queue(p, c)
  \/ \E p \in Procs : flush_queue_cancel(p)
  \/ \E p \in Procs : flush_queue_empty(p)
  \/ \E p \in Procs : flush_queue_get(p)
  \/ \E p \in Procs : store(p)
  \/ \E p \in Procs : _idx_user(p)
  \/ \E p \in Procs : _idx_tag(p)
  \/ \E p \in Procs : _notify(p)
  \/ \E p \in Requests, c \in Containers : clear(p, c)
  \/ \E p \in Requests : clear_tag_mapping(p)
  \/ \E p \in Requests : clear_status_mapping(p)
  \/ \E p \in Requests, c \in Containers, k \in Keys, v \in Values :
       insert(p, c, k, v)
  \/ \E p \in Requests, c \in Containers, k \in Keys, d \in Values :
       pop(p, c, k, d)
  \/ \E p \in Requests, c \in Containers, k \in Keys, d \in Values :
       setdefault(p, c, k, d)
  \/ \E p \in Requests, c \in Containers, coll \in SUBSET Keys :
       update(p, c, coll)

\* Calls one at a time.
Spec == Init /\ [][Next]_vars

\* The steps of two request threads and of the timer threads interleaved, for
\* the methods of the write path: add(), autoflush(), flush_queue() and the
\* timer callback.
NextConc ==
  \/ Tick
  \/ \E p \in Requests : Returns(p)
  \/ \E t \in Timers : Timer_run(t)
  \/ \E t \in Timers : _scheduled_autoflush(t)
  \/ \E p \in Requests, c \in Containers, o \in Objects : add(p, c, o)
  \/ \E p \in Requests : _schedule_flush(p)
  \/ \E p \in Requests : _schedule_flush_start(p)
  \/ \E p \in Procs, c \in Containers : autoflush(p, c)
  \/ \E p \in Procs, c \in Containers : flush_queue(p, c)
  \/ \E p \in Procs : flush_queue_cancel(p)
  \/ \E p \in Procs : flush_queue_empty(p)
  \/ \E p \in Procs : flush_queue_get(p)
  \/ \E p \in Procs : store(p)
  \/ \E p \in Procs : _idx_user(p)
  \/ \E p \in Procs : _idx_tag(p)
  \/ \E p \in Procs : _notify(p)

SpecConc == InitConc /\ [][NextConc]_vars

\* Two containers in one process (they share the module's STATUSQUEUE and
\* LOCK), calls one at a time, the methods of the write path.
InitIso ==
  /\ InitShared /\ containers = {"A", "B"} /\ serial = TRUE
  /\ budget = [adds |-> MaxAddsIso, ticks |-> MaxTicksIso]
RaceStatuses == {1, 3}
NextIso ==
  \/ Tick
  \/ \E p \in Requests : Returns(p)
  \/ \E t \in Timers : Timer_run(t)
  \/ \E t \in Timers : _scheduled_autoflush(t)
  \/ \E p \in Requests, c \in Containers, o \in RaceStatuses : add(p, c, o)
  \/ \E p \in Requests : _schedule_flush(p)
  \/ \E p \in Requests : _schedule_flush_start(p)
  \/ \E p \in Procs, c \in Containers : autoflush(p, c)
  \/ \E p \in Procs, c \in Containers : flush_queue(p, c)
  \/ \E p \in Procs : flush_queue_cancel(p)
  \/ \E p \in Procs : flush_queue_empty(p)
  \/ \E p \in Procs : flush_queue_get(p)
  \/ \E p \in Procs : store(p)
  \/ \E p \in Procs : _idx_user(p)
  \/ \E p \in Procs : _idx_tag(p)
  \/ \E p \in Procs : _notify(p)
SpecIso == InitIso /\ [][NextIso]_vars

\* Two request threads that call add() at the same time, with batching on:
\* the steps of the two calls interleaved, the clock standing still.
InitRace ==
  /\ InitShared /\ MAX_QUEUE_AGE = 1000 /\ containers = {"A"} /\ serial = FALSE
  /\ budget = [adds |-> MaxAddsRace, ticks |-> 0]
NextRace ==
  \/ \E p \in Requests : Returns(p)
  \/ \E p \in Requests, c \in Containers, o \in RaceStatuses : add(p, c, o)
  \/ \E p \in Requests : _schedule_flush(p)
  \/ \E p \in Requests : _schedule_flush_start(p)
  \/ \E p \in Requests : pc[p] = "autoflush" /\ autoflush(p, self[p])
  \/ \E p \in Requests : pc[p] = "flush_queue" /\ flush_queue(p, self[p])
  \/ \E p \in Requests : flush_queue_cancel(p)
  \/ \E p \in Requests : flush_queue_empty(p)
  \/ \E p \in Requests : flush_queue_get(p)
  \/ \E p \in Requests : store(p)
  \/ \E p \in Requests : _idx_user(p)
  \/ \E p \in Requests : _idx_tag(p)
  \/ \E p \in Requests : _notify(p)
SpecRace == InitRace /\ [][NextRace]_vars

\* ================================================================= claims

\* C1 (uniqueness): every store() insert since the last clear() occupies a
\* key of its own in _status_mapping: the number of entries equals the number
\* of inserts, so no insert overwrote an entry, also when several records
\* ask for the same id.
C1_UniqueKeys ==
  \A c \in Containers :
    Cardinality(DOMAIN _status_mapping[c]) = storeCount[c]

\* Two different status objects created with the same id are both in the
\* primary store.
C1_Witness ==
  \E c \in Containers : \E k1, k2 \in DOMAIN _status_mapping[c] :
    /\ k1 # k2
    /\ _status_mapping[c][k1] # _status_mapping[c][k2]
    /\ status_created_id(_status_mapping[c][k1]) =
         status_created_id(_status_mapping[c][k2])

\* C2 (eventual commit): with MAX_QUEUE_AGE > 0, whenever a record waits in
\* STATUSQUEUE and no call and no timer callback is running, a started timer
\* that was neither cancelled nor has fired is there to flush it; otherwise
\* nothing commits the record unless another call is made.
C2_QueuedRecordHasTimer ==
  (MAX_QUEUE_AGE > 0 /\ Resting /\ STATUSQUEUE # {})
    => \E t \in Timers : pc[t] = "waiting"

\* C3 (zero-window mode): with MAX_QUEUE_AGE = 0, when add() of a status
\* returns, it returns 1, the status is in the primary store under its id
\* and in the index sets of its user and of each of its tags, STATUSQUEUE is
\* empty and no timer was created.
C3_ZeroWindowAdd ==
  \A p \in Requests :
    (MAX_QUEUE_AGE = 0 /\ pc[p] = "return" /\ op[p] = "add" /\ ret[p].exc = "")
      => LET e == events[Len(events)]
             c == self[p]
             userid == unicode(status_userid(e.status))
         IN /\ ret[p] = Returned("1")
            /\ e.self = c
            /\ e.key = status_id[e.status]
            /\ e.key \in DOMAIN _status_mapping[c]
            /\ _status_mapping[c][e.key] = e.status
            /\ userid \in DOMAIN _user_mapping[c]
            /\ e.key \in _user_mapping[c][userid]
            /\ \A tag \in status_tags(e.status) :
                 /\ unicode(tag) \in DOMAIN _tag_mapping[c]
                 /\ e.key \in _tag_mapping[c][unicode(tag)]
            /\ STATUSQUEUE = {}
            /\ _v_timer[c] \notin Timers
            /\ \A t \in Timers : pc[t] = "unborn"

\* With MAX_QUEUE_AGE = 0 an add() has returned 1 for a status whose id was
\* taken, so that store() moved it to the next id.
C3_Witness ==
  \E p \in Requests :
    /\ MAX_QUEUE_AGE = 0 /\ pc[p] = "return" /\ op[p] = "add"
    /\ ret[p] = Returned("1")
    /\ events[Len(events)].key # status_created_id(events[Len(events)].status)

\* C4 (index fidelity): between calls, an id is in the index set of a user
\* exactly if the primary store holds under that key a status of that user,
\* and in the index set of a tag exactly if it holds under that key a status
\* with that tag; when clear() returns, the store and both indexes are empty.
Settled == \A p \in Procs : AtRest(p) \/ pc[p] = "return"
IndexedIds(tree) == UNION {tree[k] : k \in DOMAIN tree}
C4_IndexFidelity ==
  Settled =>
    \A c \in Containers :
      LET ids == DOMAIN _status_mapping[c]
                   \cup IndexedIds(_user_mapping[c])
                   \cup IndexedIds(_tag_mapping[c])
      IN /\ \A u \in UserKeys \cup DOMAIN _user_mapping[c] : \A i \in ids :
              (u \in DOMAIN _user_mapping[c] /\ i \in _user_mapping[c][u])
                <=> /\ i \in DOMAIN _status_mapping[c]
                    /\ unicode(status_userid(_status_mapping[c][i])) = u
         /\ \A tg \in TagKeys \cup DOMAIN _tag_mapping[c] : \A i \in ids :
              (tg \in DOMAIN _tag_mapping[c] /\ i \in _tag_mapping[c][tg])
                <=> /\ i \in DOMAIN _status_mapping[c]
                    /\ \E tag \in status_tags(_status_mapping[c][i]) :
                         unicode(tag) = tg
         /\ (\E p \in Requests :
               pc[p] = "return" /\ op[p] = "clear" /\ self[p] = c)
              => /\ _status_mapping[c] = EmptyTree
                 /\ _user_mapping[c] = EmptyTree
                 /\ _tag_mapping[c] = EmptyTree

\* Between calls the store holds one status, committed after a clear() that
\* removed an earlier one, and it is indexed under two tags.
C4_Witness ==
  /\ Settled
  /\ \E c \in Containers :
       /\ storeCount[c] = 1
       /\ Len(events) = 2
       /\ \A i \in 1..2 : events[i].key # 0 /\ events[i].self = c
       /\ Cardinality(DOMAIN _tag_mapping[c]) = 2

\* C5 (validation failure): the step add() makes for an object that does not
\* provide IStatusUpdate ends the call with ValueError and changes neither
\* STATUSQUEUE, the store, the indexes, _mtime, _v_timer nor any timer.
C5_InvalidAddNoEffect ==
  [][\A p \in Requests, c \in Containers, o \in Objects :
       (add(p, c, o) /\ ~IStatusUpdate_providedBy(o))
         => /\ ret'[p] = Raised("ValueError")
            /\ pc'[p] = "return"
            /\ UNCHANGED <<shared, stores, history>>
            /\ \A x \in Timers : pc'[x] = pc[x]]_vars

\* add() has raised ValueError while a status waits in STATUSQUEUE and a
\* timer is armed.
C5_Witness ==
  \E p \in Requests :
    /\ pc[p] = "return" /\ op[p] = "add" /\ ret[p] = Raised("ValueError")
    /\ STATUSQUEUE # {}
    /\ \E x \in Timers : pc[x] = "waiting" /\ _v_timer[self[p]] = x

\* C6 (rejected raw mutations): insert(), pop(), setdefault() and update()
\* raise NotImplementedError for every argument, in every state, and change
\* neither the store, the indexes, STATUSQUEUE, _mtime, _v_timer nor a timer.
C6_RawMutationsRejected ==
  [][\A p \in Requests, c \in Containers :
       (\/ \E k \in Keys, v \in Values : insert(p, c, k, v)
        \/ \E k \in Keys, d \in Values : pop(p, c, k, d)
        \/ \E k \in Keys, d \in Values : setdefault(p, c, k, d)
        \/ \E coll \in SUBSET Keys : update(p, c, coll))
         => /\ ret'[p] = Raised("NotImplementedError")
            /\ pc'[p] = "return"
            /\ UNCHANGED <<shared, stores, history>>
            /\ \A x \in Timers : pc'[x] = pc[x]]_vars

\* pop() of a key the store holds has raised NotImplementedError, while a
\* status waits in STATUSQUEUE.
C6_Witness ==
  \E p \in Requests :
    /\ pc[p] = "return" /\ op[p] = "pop"
    /\ ret[p] = Raised("NotImplementedError")
    /\ \E k \in Keys : k \in DOMAIN _status_mapping[self[p]]
    /\ STATUSQUEUE # {}

\* C7 (idempotent flush): a flush_queue() call that finds STATUSQUEUE empty
\* ends without an exception and returns 0, whatever the state of the
\* container, a new one and one run with MAX_QUEUE_AGE = 0 included, and
\* leaves the store and the indexes as they are.
C7_FlushOfEmptyQueue ==
  [][\A p \in Requests :
       (/\ op[p] = "flush_queue"
        /\ pc[p] \in {"flush_queue_cancel", "flush_queue_empty"}
        /\ STATUSQUEUE = {}
        /\ pc'[p] = "return")
         => /\ ret'[p] = Returned("0")
            /\ UNCHANGED <<stores, history>>]_vars

\* The flush_queue() calls that autoflush() made for add() or for a timer, and
\* the time each began.
Gated == {"add", "_scheduled_autoflush"}
Committed(i) == events[i].key # 0 /\ events[i].by \in Gated
Apart(a, b) == IF a >= b THEN a - b ELSE b - a

\* C8 (batching correctness), as stated: with MAX_QUEUE_AGE > 0, two statuses
\* given to add() less than MAX_QUEUE_AGE ms apart are committed by the same
\* flush_queue() call, when each was committed by a flush that add() or the
\* timer triggered.
C8_OneFlushPerBatch ==
  MAX_QUEUE_AGE > 0 =>
    \A i, j \in 1..Len(events) :
      (/\ Committed(i) /\ Committed(j)
       /\ events[i].self = events[j].self
       /\ events[i].by \in Gated /\ events[j].by \in Gated
       /\ Apart(events[i].at, events[j].at) < MAX_QUEUE_AGE)
        => events[i].fl = events[j].fl

\* C8, amended: with calls one at a time, two such statuses are committed by
\* the same flush_queue() call or by two that began more than MAX_QUEUE_AGE
\* ms apart.
C8_FlushesApart ==
  MAX_QUEUE_AGE > 0 =>
    \A i, j \in 1..Len(events) :
      (/\ Committed(i) /\ Committed(j)
       /\ events[i].self = events[j].self
       /\ events[i].by \in Gated /\ events[j].by \in Gated
       /\ events[i].fl # events[j].fl
       /\ events[i].fl[1] <= events[j].fl[1])
        => events[j].fl[1] - events[i].fl[1] > MAX_QUEUE_AGE

\* Two statuses added less than MAX_QUEUE_AGE ms apart were committed by two
\* flushes, the second one a timer's.
C8_Witness ==
  /\ MAX_QUEUE_AGE > 0
  /\ \E i, j \in 1..Len(events) :
       /\ Committed(i) /\ Committed(j)
       /\ Apart(events[i].at, events[j].at) < MAX_QUEUE_AGE
       /\ events[i].by = "add" /\ events[j].by = "_scheduled_autoflush"
       /\ events[i].fl # events[j].fl

\* C9 (flush mutual exclusion): at most one thread at a time is in the drain
\* of flush_queue(): the loop of STATUSQUEUE.get() and store().
Draining(p) ==
  \/ pc[p] = "flush_queue_get"
  \/ pc[p] \in {"store", "_idx_user", "_idx_tag", "_notify"}
       /\ frame[p] = "flush_queue"
C9_OneThreadDrains ==
  Cardinality({p \in Procs : Draining(p)}) <= 1

\* Arguments user_keys() is called with.
UsersArgs ==
  { None, List(<<>>), <<"str", "a">>, <<"unicode", "b">>,
    List(<<<<"str", "a">>>>), List(<<<<"str", "z">>>>),
    List(<<<<"str", "a">>, <<"str", "b">>>>),
    List(<<<<"unicode", "a">>, <<"str", "a">>, <<"str", "z">>>>) }
BoundArgs == {None} \cup {Integer(n) : n \in 0..MaxBound}
Requested(users) ==
  IF users = None THEN {}
  ELSE IF users[1] = "list"
       THEN {unicode(users[2][n]) : n \in 1..Len(users[2])}
       ELSE {unicode(users)}

\* C10 (filtered lookup): between calls, for all users, min and max,
\* user_keys(users, min, max) is the strictly ascending list of exactly the
\* ids that are in the index set of a requested user and are >= min and
\* <= max, where None is no bound and every int, 0 too, is a bound.
C10_FilteredLookup ==
  Resting =>
    \A c \in containers : \A users \in UsersArgs : \A min, max \in BoundArgs :
      LET keys == user_keys(c, users, min, max)
          wanted == {i \in IndexedIds(_user_mapping[c]) :
                       /\ \E u \in Requested(users) \cap DOMAIN _user_mapping[c] :
                            i \in _user_mapping[c][u]
                       /\ (min = None \/ min[2] <= i)
                       /\ (max = None \/ i <= max[2])}
      IN /\ {keys[n] : n \in 1..Len(keys)} = wanted
         /\ \A n \in 1..(Len(keys) - 1) : keys[n] < keys[n + 1]

\* C11 (identifier allocation): the step of store() that inserts a status
\* inserts it under the smallest id, from status.id as store() was called
\* on, that is not a key of the store, and status.id is that key.
C11_SmallestFreeId ==
  [][\A p \in Procs :
       (pc[p] = "store" /\ pc'[p] = "_idx_user")
         => LET c == self[p]
                s == status[p]
                r == events[ev[p]].req
                k == events'[ev[p]].key
            IN /\ k >= r
               /\ \A x \in r..(k - 1) : x \in DOMAIN _status_mapping[c]
               /\ k \notin DOMAIN _status_mapping[c]
               /\ k \in DOMAIN _status_mapping'[c]
               /\ _status_mapping'[c][k] = s
               /\ status_id'[s] = k]_vars

\* Two statuses created with the same id T are stored under T and T + 1.
C11_Witness ==
  \E i, j \in 1..Len(events) :
    /\ events[i].status # events[j].status
    /\ events[i].req = events[j].req
    /\ events[i].key = events[i].req
    /\ events[j].key = events[i].req + 1
    /\ events[i].into = events[j].into

\* C12 (notification exactly once): every status add() accepted is stored
\* at most once; it is notified at most once, and once when its store() is
\* through; the ObjectAddedEvent is sent when the status is in the store and
\* the indexes of the container it was added to, with the key it is stored
\* under as newName and that container's context as newParent.
Storing(i) ==
  \E p \in Procs :
    ev[p] = i /\ pc[p] \in {"store", "_idx_user", "_idx_tag", "_notify"}
C12_NotifiedOnce ==
  /\ storeCount["A"] + storeCount["B"] =
       Cardinality({i \in 1..Len(events) : events[i].key # 0})
  /\ \A i \in 1..Len(events) :
       LET e == events[i]
           c == e.self
       IN /\ e.notified <= 1
          /\ (e.key # 0 /\ ~Storing(i)) => e.notified = 1
          /\ e.notified = 1 =>
               /\ e.key # 0
               /\ e.newName = e.key
               /\ e.newParent = c
               /\ e.key \in DOMAIN _status_mapping[c]
               /\ _status_mapping[c][e.key] = e.status
               /\ unicode(status_userid(e.status)) \in DOMAIN _user_mapping[c]
               /\ e.key \in _user_mapping[c][unicode(status_userid(e.status))]
               /\ \A tag \in status_tags(e.status) :
                    /\ unicode(tag) \in DOMAIN _tag_mapping[c]
                    /\ e.key \in _tag_mapping[c][unicode(tag)]

\* C13 (out-of-band durability): a timer callback is at transaction.commit()
\* only if the flush_queue() call it made stored a status.
C13_CommitOnlyIfWrote ==
  \A t \in Timers :
    pc[t] = "_scheduled_autoflush"
      => \E i \in 1..Len(events) :
           events[i].key # 0 /\ events[i].fl = fno[t]

C15_DrainOrder ==
  \A i, j \in 1..Len(events) :
    (/\ events[i].seq # 0 /\ events[j].seq # 0
     /\ events[i].fl # <<>>
     /\ events[i].fl = events[j].fl
     /\ events[i].qid < events[j].qid)
      => events[i].seq < events[j].seq

\* One flush_queue() call stored two statuses, the one added later first.
C15_Witness ==
  \E i, j \in 1..Len(events) :
    /\ i < j
    /\ events[i].fl # <<>> /\ events[i].fl = events[j].fl
    /\ events[j].qid < events[i].qid
    /\ events[j].seq # 0 /\ events[j].seq < events[i].seq

\* C16 (single armed timer): for each container at most one timer is started
\* and has neither fired nor been cancelled, and such a timer is the one
\* _v_timer refers to.
Armed(c) == {t \in Timers : pc[t] = "waiting" /\ self[t] = c}
C16_SingleArmedTimer ==
  \A c \in Containers :
    /\ Cardinality(Armed(c)) <= 1
    /\ \A t \in Armed(c) : _v_timer[c] = t

\* C17 (monotonic identifiers), as stated: the step of store() that inserts
\* a status inserts it under a key greater than every key of the store, that
\* is, than every key inserted since the last clear().
C17_MonotonicIds ==
  [][\A p \in Procs :
       (pc[p] = "store" /\ pc'[p] = "_idx_user")
         => \A x \in DOMAIN _status_mapping[self[p]] :
              x < events'[ev[p]].key]_vars

\* status.id of the i-th accepted status when add() was called with it.
AddedId(i) == IF events[i].qid # 0 THEN events[i].qid ELSE events[i].req
AddedInIdOrder ==
  \A i, j \in 1..Len(events) : i < j => AddedId(i) <= AddedId(j)

\* C17, amended: the same, when the statuses were given to add() in
\* non-decreasing order of their status.id.
C17_MonotonicIdsInOrder ==
  [][\A p \in Procs :
       (pc[p] = "store" /\ pc'[p] = "_idx_user" /\ AddedInIdOrder)
         => \A x \in DOMAIN _status_mapping[self[p]] :
              x < events'[ev[p]].key]_vars

\* Two statuses added in the order of their ids are stored, the second one
\* under a key store() had to move it to.
C17_Witness ==
  /\ Len(events) = 2
  /\ AddedInIdOrder
  /\ events[1].key # 0
  /\ events[2].key > events[1].key
  /\ events[2].key > AddedId(2)
  /\ events[1].into = events[2].into
  /\ events[1].key \in DOMAIN _status_mapping[events[1].into]

\* C18 (complete drain): when a flush_queue() call made by a request has
\* returned and no add() call overlapped it, STATUSQUEUE is empty, every
\* status that was queued when the flush started is in the store, _mtime is
\* the time of the flush and _v_timer is None; also when the queue was empty.
C18_CompleteDrain ==
  \A p \in Requests :
    (/\ pc[p] = "return" /\ op[p] = "flush_queue" /\ ret[p].exc = ""
     /\ fno[p] # <<>>
     /\ \A i \in 1..Len(events) : p \notin events[i].during)
      => /\ STATUSQUEUE = {}
         /\ \A i \in fno[p][4] :
              /\ events[i].key # 0
              /\ events[i].key \in DOMAIN _status_mapping[events[i].into]
         /\ _mtime[self[p]] = fno[p][1]
         /\ _v_timer[self[p]] = None

\* C19 (container isolation): with two containers in one process, a status
\* given to add() of one container is only ever stored and indexed in that
\* container, and its ObjectAddedEvent names that container as newParent.
C19_ContainerIsolation ==
  \A i \in 1..Len(events) :
    LET e == events[i]
    IN (\A j \in 1..Len(events) :
          events[j].status = e.status => events[j].self = e.self)
         => /\ e.key # 0 => e.into = e.self
            /\ e.notified # 0 => e.newParent = e.self
            /\ \A c \in Containers \ {e.self} :
                 \A k \in DOMAIN _status_mapping[c] :
                   _status_mapping[c][k] # e.status

\* C20 (key/identifier agreement): every entry k -> status of
\* _status_mapping has status.id = k, also when one status object is given
\* to add() more than once.
C20_KeyIsId ==
  \A c \in Containers :
    \A k \in DOMAIN _status_mapping[c] :
      status_id[_status_mapping[c][k]] = k

====
